---------------------------- MODULE Spec2Model ----------------------------
(***************************************************************************)
(* Fixed-deposit rate scrapers: the two orchestrators of the repository    *)
(* (run_all.run_scraper_orchestrator and fd_scraper_v2.main), the          *)
(* publisher (delete-then-insert on the "public-rates" table), the run log *)
(* and the extraction helpers the scrapers share.                          *)
(*                                                                         *)
(* Text is a sequence of one-character strings.  A Python float is held as *)
(* an integer number of hundredths (the rate texts drawn below have at     *)
(* most two fractional digits).  An optional value is a record             *)
(* [tag, v] with tag "none", "val" or "exc" (the call raised).             *)
(***************************************************************************)
EXTENDS Integers, Sequences, FiniteSets, TLC

(***************************************************************************)
(* Text helpers (Python str / re semantics used by the scrapers)           *)
(***************************************************************************)
Digits == {"0", "1", "2", "3", "4", "5", "6", "7", "8", "9"}

UpperChars == <<"A", "B", "C", "D", "E", "F", "G", "H", "I", "J", "K", "L", "M",
                "N", "O", "P", "Q", "R", "S", "T", "U", "V", "W", "X", "Y", "Z">>

LowerChars == <<"a", "b", "c", "d", "e", "f", "g", "h", "i", "j", "k", "l", "m",
                "n", "o", "p", "q", "r", "s", "t", "u", "v", "w", "x", "y", "z">>

None == [tag |-> "none", v |-> 0]

Val(x) == [tag |-> "val", v |-> x]

Raised == [tag |-> "exc", v |-> 0]

\* Python truthiness of an optional number: None and 0 / 0.0 are falsy.
Truthy(o) == o.tag = "val" /\ o.v # 0

\* str.lower() on one character
LowerChar(c) ==
    IF \E k \in 1..Len(UpperChars) : UpperChars[k] = c
    THEN LowerChars[CHOOSE k \in 1..Len(UpperChars) : UpperChars[k] = c]
    ELSE c

\* str.lower()
Lower(s) == [k \in 1..Len(s) |-> LowerChar(s[k])]

\* `sub in s`
Contains(s, sub) ==
    \E k \in 1..(Len(s) - Len(sub) + 1) : SubSeq(s, k, k + Len(sub) - 1) = sub

\* str.strip() (blanks only)
Strip(s) ==
    IF \A k \in 1..Len(s) : s[k] = " " THEN <<>>
    ELSE LET a == CHOOSE k \in 1..Len(s) :
                      s[k] # " " /\ \A m \in 1..(k - 1) : s[m] = " "
             b == CHOOSE k \in 1..Len(s) :
                      s[k] # " " /\ \A m \in (k + 1)..Len(s) : s[m] = " "
         IN  SubSeq(s, a, b)

\* re.search(r'([<cls>]+)', s).group(1): the leftmost maximal run of
\* characters of cls; <<>> when there is no match.
FirstRun(s, cls) ==
    IF \A k \in 1..Len(s) : s[k] \notin cls THEN <<>>
    ELSE LET a == CHOOSE k \in 1..Len(s) :
                      s[k] \in cls /\ \A m \in 1..(k - 1) : s[m] \notin cls
             b == CHOOSE k \in a..Len(s) :
                      /\ \A m \in a..k : s[m] \in cls
                      /\ (k = Len(s) \/ s[k + 1] \notin cls)
         IN  SubSeq(s, a, b)

DigitVal(c) == CHOOSE n \in 0..9 : <<"0", "1", "2", "3", "4", "5", "6", "7", "8", "9">>[n + 1] = c

\* int(digits)
RECURSIVE ToInt(_)
ToInt(ds) ==
    IF ds = <<>> THEN 0
    ELSE 10 * ToInt(SubSeq(ds, 1, Len(ds) - 1)) + DigitVal(ds[Len(ds)])

\* float(text) for a text of digits and dots: ValueError unless there is at
\* least one digit and at most one dot; the value is in hundredths.
ToFloat(t) ==
    LET dots == {k \in 1..Len(t) : t[k] = "."}
    IN  IF Cardinality(dots) > 1 \/ Len(t) = Cardinality(dots) THEN Raised
        ELSE IF dots = {} THEN Val(100 * ToInt(t))
        ELSE LET d    == CHOOSE k \in dots : TRUE
                 ip   == SubSeq(t, 1, d - 1)
                 fp   == SubSeq(t, d + 1, Len(t))
                 fp2  == SubSeq(fp \o <<"0", "0">>, 1, 2)
             IN  Val(100 * ToInt(ip) + ToInt(fp2))

\* The en dash is one character, written "ndash".  utils.py holds the dash
\* placeholder mis-encoded as the three characters a-circumflex, euro sign,
\* left double quote; fd_scraper_v2.py holds the en dash itself.
EnDash == <<"ndash">>

MojibakeDash == <<"acirc", "euro", "ldquo">>

(***************************************************************************)
(* utils.py                                                                *)
(***************************************************************************)
\* clean_rate(rate_text): the first run of digits and dots as a float; None
\* for the dash placeholders and for text without such a run; raises
\* ValueError when the run is not a float ("1.2.3", ".").
clean_rate(rate_text) ==
    IF Strip(rate_text) \notin {<<"-">>, MojibakeDash}
    THEN LET match == FirstRun(rate_text, Digits \cup {"."})
         IN  IF match # <<>> THEN ToFloat(match) ELSE None
    ELSE None

\* A faulty variant of parse_term_to_months: a term in years is not
\* multiplied by 12.
parse_term_to_months_NoYearFactor(term_text) ==
    LET t == Lower(term_text)
        match == FirstRun(t, Digits)
    IN  IF Contains(t, <<"y", "e", "a", "r">>) \/ Contains(t, <<"m", "o", "n", "t", "h">>)
        THEN IF match # <<>> THEN Val(ToInt(match)) ELSE None
        ELSE None

\* parse_term_to_months(term_text)
parse_term_to_months(term_text) ==
    LET t == Lower(term_text)
        match == FirstRun(t, Digits)
    IN  IF Contains(t, <<"y", "e", "a", "r">>)
        THEN IF match # <<>> THEN Val(ToInt(match) * 12) ELSE None
        ELSE IF Contains(t, <<"m", "o", "n", "t", "h">>)
        THEN IF match # <<>> THEN Val(ToInt(match)) ELSE None
        ELSE None

\* float(text) as the Commercial Bank scraper calls it on a whole cell:
\* ValueError for any text that is not a plain decimal number.
PyFloat(t) ==
    LET u == Strip(t)
    IN  IF \A k \in 1..Len(u) : u[k] \in Digits \cup {"."} THEN ToFloat(u) ELSE Raised

\* Concatenation of a sequence of sequences (list.extend in a loop).
RECURSIVE Flatten(_)
Flatten(ss) == IF ss = <<>> THEN <<>> ELSE Head(ss) \o Flatten(Tail(ss))

(***************************************************************************)
(* Scraped rows.  A DataFrame is the sequence of its rows; an extracted    *)
(* row carries the column names the scrapers write (blanks as _).          *)
(***************************************************************************)
RawRecord(name, fdType, instType, term, schedule, rate, aer) ==
    [Bank_Name |-> name, FD_Type |-> fdType, Institution_Type |-> instType,
     Term_Months |-> term, Payout_Schedule |-> schedule,
     Interest_Rate |-> rate, Annual_Effective_Rate |-> aer]

\* A faulty variant of ColumnRecords: the record is appended whatever the
\* rate cell holds.
ColumnRecords_AppendsAlways(rateO, aerO, name, fdType, instType, term, schedule) ==
    <<RawRecord(name, fdType, instType, term, schedule, rateO.v, aerO)>>

\* One `if rate := clean_rate(cells[a]): all_rates_data.append({...})` line:
\* rateO and aerO are the two clean_rate results (aerO is None where the
\* scraper writes None).  The aer cell is only parsed when the rate is truthy.
ColumnRecords(rateO, aerO, name, fdType, instType, term, schedule) ==
    IF Truthy(rateO)
    THEN <<RawRecord(name, fdType, instType, term, schedule, rateO.v, aerO)>>
    ELSE <<>>

ColumnRaises(rateO, aerO) ==
    rateO.tag = "exc" \/ (Truthy(rateO) /\ aerO.tag = "exc")

NoRows == [exc |-> FALSE, rows |-> <<>>]

(***************************************************************************)
(* scrapers/alliance.py: AllianceScraper.scrape, after the fetch           *)
(***************************************************************************)
\* The body of the row loop: [exc, rows], exc when a clean_rate call raised.
AllianceRow(cells, name, instType) ==
    IF Len(cells) # 5 THEN NoRows
    ELSE LET term_months == parse_term_to_months(cells[1])
         IN  IF ~Truthy(term_months) THEN NoRows
             ELSE LET monthly  == clean_rate(cells[2])
                      mAer     == IF Truthy(monthly) THEN clean_rate(cells[3]) ELSE None
                      maturity == clean_rate(cells[4])
                      tAer     == IF Truthy(maturity) THEN clean_rate(cells[5]) ELSE None
                  IN  [exc  |-> ColumnRaises(monthly, mAer) \/ ColumnRaises(maturity, tAer),
                       rows |-> ColumnRecords(monthly, mAer, name, "Standard", instType,
                                              term_months, "Monthly")
                                \o ColumnRecords(maturity, tAer, name, "Standard", instType,
                                                 term_months, "At Maturity")]

\* A scrape result: kind "df" (a DataFrame, possibly empty), "exc" (the call
\* raised, msg is str(e)), "none" (the call returned None) or "coroutine"
\* (an un-awaited coroutine object).
DataFrame(rows) == [kind |-> "df", rows |-> rows, msg |-> ""]

Raise(msg) == [kind |-> "exc", rows |-> <<>>, msg |-> msg]

ReturnNone == [kind |-> "none", rows |-> <<>>, msg |-> ""]

Coroutine == [kind |-> "coroutine", rows |-> <<>>, msg |-> ""]

\* A fetched document of the Alliance site: table is FALSE when the page has
\* no table with id tablepress-1; rows are the texts of the td cells of each
\* tbody row.
AllianceScrape(doc, name, instType) ==
    IF ~doc.table THEN DataFrame(<<>>)
    ELSE LET per == [k \in 1..Len(doc.rows) |-> AllianceRow(doc.rows[k], name, instType)]
             all_rates_data == Flatten([k \in 1..Len(per) |-> per[k].rows])
         IN  IF \E k \in 1..Len(per) : per[k].exc
             THEN Raise("could not convert string to float")
             ELSE DataFrame(all_rates_data)

(***************************************************************************)
(* fd_scraper_v2.py: scrape_cargills_bank_fd_rates, after the fetch        *)
(* (scrapers/cargills.py and cargills.py hold the same row loops)          *)
(***************************************************************************)
\* The nested clean_rate of the legacy scrapers: the dash token is the en dash.
clean_rate_legacy(rate_text) ==
    IF Strip(rate_text) \notin {<<"-">>, EnDash}
    THEN LET match == FirstRun(rate_text, Digits \cup {"."})
         IN  IF match # <<>> THEN ToFloat(match) ELSE None
    ELSE None

CargillsStandardRow(cells) ==
    IF Len(cells) # 6 THEN NoRows
    ELSE LET term_months == parse_term_to_months(cells[1])
         IN  IF ~Truthy(term_months) THEN NoRows
             ELSE LET r1 == clean_rate_legacy(cells[2])
                      a1 == IF Truthy(r1) THEN clean_rate_legacy(cells[3]) ELSE None
                      r2 == clean_rate_legacy(cells[4])
                      a2 == IF Truthy(r2) THEN clean_rate_legacy(cells[5]) ELSE None
                      r3 == clean_rate_legacy(cells[6])
                  IN  [exc  |-> \/ ColumnRaises(r1, a1)
                                \/ ColumnRaises(r2, a2)
                                \/ ColumnRaises(r3, None),
                       rows |-> ColumnRecords(r1, a1, "Cargills Bank", "Standard", "Bank",
                                              term_months, "At Maturity")
                                \o ColumnRecords(r2, a2, "Cargills Bank", "Standard", "Bank",
                                                 term_months, "Monthly")
                                \o ColumnRecords(r3, None, "Cargills Bank", "Standard", "Bank",
                                                 term_months, "Annually")]

CargillsSeniorRow(cells) ==
    IF Len(cells) # 3 THEN NoRows
    ELSE LET term_months == parse_term_to_months(cells[1])
         IN  IF ~Truthy(term_months) THEN NoRows
             ELSE LET r1 == clean_rate_legacy(cells[2])
                      r2 == clean_rate_legacy(cells[3])
                  IN  [exc  |-> ColumnRaises(r1, None) \/ ColumnRaises(r2, None),
                       rows |-> ColumnRecords(r1, None, "Cargills Bank", "Senior Citizen",
                                              "Bank", term_months, "At Maturity")
                                \o ColumnRecords(r2, None, "Cargills Bank", "Senior Citizen",
                                                 "Bank", term_months, "Monthly")]

\* select('tbody > tr')[1:]
SkipHeader(rows) == IF rows = <<>> THEN <<>> ELSE Tail(rows)

\* A fetched document of the Cargills site: standard and senior are the two
\* tables (hasStandard / hasSenior FALSE when the header paragraph or the
\* table after it is missing).  Every exception is caught and None returned.
scrape_cargills_bank_fd_rates(doc) ==
    LET std == IF doc.hasStandard THEN SkipHeader(doc.standard) ELSE <<>>
        sen == IF doc.hasSenior THEN SkipHeader(doc.senior) ELSE <<>>
        ps  == [k \in 1..Len(std) |-> CargillsStandardRow(std[k])]
        pn  == [k \in 1..Len(sen) |-> CargillsSeniorRow(sen[k])]
        all_rates_data == Flatten([k \in 1..Len(ps) |-> ps[k].rows])
                          \o Flatten([k \in 1..Len(pn) |-> pn[k].rows])
    IN  IF (\E k \in 1..Len(ps) : ps[k].exc) \/ (\E k \in 1..Len(pn) : pn[k].exc)
        THEN ReturnNone
        ELSE IF all_rates_data = <<>> THEN ReturnNone
        ELSE DataFrame(all_rates_data)

(***************************************************************************)
(* fd_scraper_v2.py: scrape_commercial_bank_fd_rates, after the browser    *)
(***************************************************************************)
\* re.search(r'(\d+)\s*Months?', text, re.IGNORECASE).group(1): the first
\* maximal run of digits that blanks and then "month" follow; <<>> if none.
MonthsMatch(text) ==
    LET t == Lower(text)
        Follows(b) ==
            \E e \in b..Len(t) :
                /\ \A m \in (b + 1)..e : t[m] = " "
                /\ e + 5 <= Len(t)
                /\ SubSeq(t, e + 1, e + 5) = <<"m", "o", "n", "t", "h">>
        starts == {a \in 1..Len(t) :
                      /\ t[a] \in Digits
                      /\ (a = 1 \/ t[a - 1] \notin Digits)
                      /\ \E b \in a..Len(t) :
                            /\ \A m \in a..b : t[m] \in Digits
                            /\ (b = Len(t) \/ t[b + 1] \notin Digits)
                            /\ Follows(b)}
    IN  IF starts = {} THEN <<>>
        ELSE LET a == CHOOSE k \in starts : \A m \in starts : k <= m
             IN  FirstRun(SubSeq(t, a, Len(t)), Digits)

CommercialRow(cells) ==
    IF Len(cells) # 4 THEN <<>>
    ELSE LET description_raw == cells[1]
             term_match == MonthsMatch(description_raw)
             low == Lower(description_raw)
             payout_schedule ==
                 IF Contains(low, <<"m", "o", "n", "t", "h", "l", "y">>) THEN "Monthly"
                 ELSE IF Contains(low, <<"a", "n", "n", "u", "a", "l", "l", "y">>)
                 THEN "Annually" ELSE "At Maturity"
             rate == PyFloat(cells[2])
             aer  == PyFloat(cells[3])
         IN  IF rate.tag = "exc" \/ aer.tag = "exc" THEN <<>>
             ELSE <<RawRecord("Commercial Bank", "Standard", "Bank",
                              IF term_match # <<>> THEN Val(ToInt(term_match)) ELSE None,
                              payout_schedule, rate.v, aer)>>

\* doc.browser is FALSE when the browser automation raised (navigation, the
\* wait for the selector or the click): the function returns None.
scrape_commercial_bank_fd_rates(doc) ==
    IF ~doc.browser THEN ReturnNone
    ELSE IF ~doc.table THEN ReturnNone
    ELSE LET data_rows == Flatten([k \in 1..Len(doc.rows) |-> CommercialRow(doc.rows[k])])
         IN  IF data_rows = <<>> THEN ReturnNone ELSE DataFrame(data_rows)

(***************************************************************************)
(* clean_and_rename_df and the store                                       *)
(***************************************************************************)
\* The institution names, in the order Python compares them as strings.
BankNames == <<"Alliance Finance", "Cargills Bank", "Commercial Bank">>

NameRank(n) == CHOOSE k \in 1..Len(BankNames) : BankNames[k] = n

\* sort_values(by=['bankName', 'termMonths']): a missing term sorts last.
RowLeq(r, q) ==
    \/ NameRank(r.bankName) < NameRank(q.bankName)
    \/ /\ r.bankName = q.bankName
       /\ \/ q.termMonths.tag # "val"
          \/ (r.termMonths.tag = "val" /\ r.termMonths.v <= q.termMonths.v)

\* The stable sort of sort_values: row m comes before row k when it sorts
\* lower, or sorts equal and stands earlier in s.
SortRows(s) ==
    LET Before(m, k) ==
            \/ ~RowLeq(s[k], s[m])
            \/ m < k /\ RowLeq(s[m], s[k])
        Place(k) == 1 + Cardinality({m \in 1..Len(s) : m # k /\ Before(m, k)})
    IN  [p \in 1..Len(s) |-> s[CHOOSE k \in 1..Len(s) : Place(k) = p]]

Rename(r) ==
    [bankName |-> r.Bank_Name, fdType |-> r.FD_Type,
     institutionType |-> r.Institution_Type, termMonths |-> r.Term_Months,
     payoutSchedule |-> r.Payout_Schedule, interestRate |-> r.Interest_Rate,
     aer |-> r.Annual_Effective_Rate]

\* clean_and_rename_df(df).to_dict('records')
clean_and_rename_df(df) == SortRows([k \in 1..Len(df) |-> Rename(df[k])])

\* Faulty variants of StoreDelete: the filter matches no row; the filter is on
\* another column; there is no filter.
StoreDelete_MatchesNothing(table, name) == table

StoreDelete_WrongColumn(table, name) == SelectSeq(table, LAMBDA r : r.fdType # name)

StoreDelete_NoFilter(table, name) == <<>>

\* from_("public-rates").delete().eq("bankName", name), accepted by the store
StoreDelete(table, name) == SelectSeq(table, LAMBDA r : r.bankName # name)

\* from_("public-rates").insert(records), accepted by the store
StoreInsert(table, records) == table \o records

RowsOf(table, name) == SelectSeq(table, LAMBDA r : r.bankName = name)

(***************************************************************************)
(* Inputs: the documents a fetch can return                                *)
(***************************************************************************)
\* Most table rows of one fetched document.
MaxRows == 2

SeqsUpTo(S, n) == UNION {[1..k -> S] : k \in 0..n}

T12Months == <<"1", "2", " ", "M", "o", "n", "t", "h", "s">>

T1Year == <<"1", " ", "Y", "e", "a", "r">>

T6Months == <<"6", " ", "M", "o", "n", "t", "h", "s">>

Dash == <<"-">>

R135 == <<"1", "3", ".", "5", "%">>

R139 == <<"1", "3", ".", "9", "%">>

R120 == <<"1", "2", ".", "0", "%">>

R14 == <<"1", "4", "%">>

RNA == <<"N", ".", "A", ".">>

\* Rows of the Alliance table: the two rows of the documented scenario, a
\* row in years with the same term as the first, a row with four cells and
\* a row whose rate text is not a number.
AllianceRows ==
    { <<T12Months, R135, R139, Dash, Dash>>,
      <<T6Months, Dash, Dash, R120, Dash>>,
      <<T1Year, R14, Dash, Dash, Dash>>,
      <<T12Months, R135, R139, Dash>>,
      <<T6Months, RNA, Dash, Dash, Dash>> }

AllianceDocs ==
    {[table |-> FALSE, rows |-> <<>>]}
    \cup {[table |-> TRUE, rows |-> r] : r \in SeqsUpTo(AllianceRows, MaxRows)}

HeaderRow == <<<<"T", "e", "r", "m">>>>

CargillsStandardRows ==
    { <<T12Months, R135, R139, Dash, Dash, Dash>>,
      <<T1Year, R14, Dash, Dash, Dash, Dash>>,
      <<T6Months, R120, Dash>> }

CargillsSeniorTables == {<<HeaderRow>>, <<HeaderRow, <<T6Months, R120, Dash>>>>}

CargillsDocs ==
    {[hasStandard |-> FALSE, standard |-> <<>>, hasSenior |-> FALSE, senior |-> <<>>]}
    \cup {[hasStandard |-> TRUE, standard |-> <<HeaderRow>> \o r,
           hasSenior |-> TRUE, senior |-> t] :
              r \in SeqsUpTo(CargillsStandardRows, MaxRows), t \in CargillsSeniorTables}

CommercialRows ==
    { << T12Months, <<"1", "3", ".", "5">>, <<"1", "3", ".", "9">>, <<>> >>,
      << <<"M", "o", "n", "t", "h", "l", "y">>, <<"1", "2", ".", "0">>,
         <<"1", "2", ".", "5">>, <<>> >>,
      << T6Months, Dash, Dash, <<>> >> }

CommercialDocs ==
    {[browser |-> FALSE, table |-> FALSE, rows |-> <<>>],
     [browser |-> TRUE, table |-> FALSE, rows |-> <<>>]}
    \cup {[browser |-> TRUE, table |-> TRUE, rows |-> r] :
              r \in SeqsUpTo(CommercialRows, MaxRows)}

\* str(e) of the exception a fetch raises; the text can be empty.
FetchErrors == {"", "Read timed out"}

\* str(e) of the exception the store client raises for a rejected call.
StoreError == "store rejected the request"

(***************************************************************************)
(* The job lists                                                           *)
(***************************************************************************)
\* run_all.py: scrapers_to_run.  async is TRUE when the class declares
\* `async def scrape` (scrapers/cargills.py) and FALSE for a plain `def`
\* (scrapers/alliance.py).
scrapers_to_run ==
    << [name |-> "Cargills Bank", institution_type |-> "Bank", async |-> TRUE],
       [name |-> "Alliance Finance", institution_type |-> "Finance Company",
        async |-> FALSE] >>

\* A faulty variant of async_scrapers: the table repeats a name of the sync
\* table.
async_scrapers_RepeatsSyncName == <<"Cargills Bank">>

\* fd_scraper_v2.py: main's two tables, one entry of each kept.
sync_scrapers == <<"Cargills Bank">>

async_scrapers == <<"Commercial Bank">>

all_scraper_names == sync_scrapers \o async_scrapers

\* BaseScraper.get_log_data
get_log_data(scraper) ==
    [name |-> scraper.name, institutionType |-> scraper.institution_type,
     status |-> "Pending", recordsUpdated |-> 0, errorMessage |-> "N/A"]

(***************************************************************************)
(* State                                                                   *)
(***************************************************************************)
VARIABLES
    prog,                \* which script runs: "run_all" or "main"
    env,                 \* [url, key]: TRUE when the variable is set
    pc,                  \* position of the orchestrator
    i,                   \* run_all: the loop index
    jpc,                 \* position of each job
    df,                  \* result of each job's scrape
    records,             \* cleaned records of each job
    rates,               \* the "public-rates" table
    scraper_logs,        \* the "scraper_logs" table
    all_logs,            \* run_all: the log entries of the run
    successful_scrapes,  \* main: summary counter
    failed_scrapes,      \* main: summary counter
    hist,                \* per job: what was issued and how the store answered
    prior,               \* the "public-rates" table when the run started
    upserts,             \* number of log upserts issued
    call                 \* the last direct call of an extraction helper

vars == <<prog, env, pc, i, jpc, df, records, rates, scraper_logs, all_logs,
          successful_scrapes, failed_scrapes, hist, prior, upserts, call>>

Jobs == 1..2

JobName(j) == IF prog = "run_all" THEN scrapers_to_run[j].name ELSE all_scraper_names[j]

\* A row published by an earlier run: what clean_and_rename_df made of one
\* extracted record of that institution.
OldRow(name) ==
    Rename(RawRecord(name, "Standard",
                     IF name = "Alliance Finance" THEN "Finance Company" ELSE "Bank",
                     Val(3), "At Maturity", 900, None))

\* No helper has been called directly.
NoCall == [fn |-> "none", arg |-> <<>>, result |-> None]

NoHist == [fetch |-> "none", del |-> "none", ins |-> "none",
           fetches |-> 0, deletes |-> 0, inserts |-> 0,
           warning |-> FALSE]

Init ==
    /\ prog \in {"run_all", "main"}
    /\ env \in [url : BOOLEAN, key : BOOLEAN]
    /\ pc = "start"
    /\ i = 0
    /\ jpc = [j \in Jobs |-> "pending"]
    /\ df = [j \in Jobs |-> ReturnNone]
    /\ records = [j \in Jobs |-> <<>>]
    /\ \E olds \in SUBSET Jobs :
          rates = [k \in 1..Cardinality(olds) |->
                      OldRow(JobName(CHOOSE j \in olds :
                                 Cardinality({m \in olds : m < j}) = k - 1))]
    /\ scraper_logs = {}
    /\ all_logs = <<>>
    /\ successful_scrapes = 0
    /\ failed_scrapes = 0
    /\ hist = [j \in Jobs |-> NoHist]
    /\ prior = rates
    /\ upserts = 0
    /\ call = NoCall

(***************************************************************************)
(* run_all.py: run_scraper_orchestrator                                    *)
(***************************************************************************)
\* A faulty variant of RunAllInit: only the URL is looked at.
RunAllInit_ChecksUrlOnly ==
    /\ prog = "run_all" /\ pc = "start"
    /\ IF ~env.url
       THEN /\ pc' = "aborted"
            /\ UNCHANGED <<i, all_logs>>
       ELSE /\ pc' = "loop"
            /\ i' = 1
            /\ all_logs' = [k \in 1..Len(scrapers_to_run) |->
                               get_log_data(scrapers_to_run[k])]
    /\ UNCHANGED <<call, prog, env, jpc, df, records, rates, scraper_logs,
                   successful_scrapes, failed_scrapes, hist, prior, upserts>>

\* Lines 25-51: the configuration check, the job list and the log entries.
RunAllInit ==
    /\ prog = "run_all" /\ pc = "start"
    /\ IF ~env.url \/ ~env.key
       THEN /\ pc' = "aborted"
            /\ UNCHANGED <<i, all_logs>>
       ELSE /\ pc' = "loop"
            /\ i' = 1
            /\ all_logs' = [k \in 1..Len(scrapers_to_run) |->
                               get_log_data(scrapers_to_run[k])]
    /\ UNCHANGED <<call, prog, env, jpc, df, records, rates, scraper_logs,
                   successful_scrapes, failed_scrapes, hist, prior, upserts>>

\* A faulty variant of RunAllStartScrape: the scrape of the next job is
\* started together with the scrape of job i.
RunAllStartScrape_StartsNextToo ==
    /\ prog = "run_all" /\ pc = "loop"
    /\ jpc[i] = "pending"
    /\ jpc' = [j \in Jobs |-> IF j \in {i, i + 1} THEN "scraping" ELSE jpc[j]]
    /\ hist' = [hist EXCEPT ![i].fetches =
                   IF scrapers_to_run[i].async THEN @ ELSE @ + 1]
    /\ UNCHANGED <<call, prog, env, pc, i, df, records, rates, scraper_logs, all_logs,
                   successful_scrapes, failed_scrapes, prior, upserts>>

\* Line 57: asyncio.to_thread(scraper.scrape) is awaited.  A plain scrape
\* issues its GET in the thread; calling an async scrape only builds a
\* coroutine object and fetches nothing.
RunAllStartScrape ==
    /\ prog = "run_all" /\ pc = "loop"
    /\ jpc[i] = "pending"
    /\ jpc' = [jpc EXCEPT ![i] = "scraping"]
    /\ hist' = [hist EXCEPT ![i].fetches =
                   IF scrapers_to_run[i].async THEN @ ELSE @ + 1]
    /\ UNCHANGED <<call, prog, env, pc, i, df, records, rates, scraper_logs, all_logs,
                   successful_scrapes, failed_scrapes, prior, upserts>>

\* What scraper.scrape, run in the thread, hands back.
ScrapeOutcomes(scraper) ==
    IF scraper.async THEN {[fetch |-> "coroutine", result |-> Coroutine]}
    ELSE {[fetch |-> "raised", result |-> Raise(m)] : m \in FetchErrors}
         \cup {[fetch |-> "doc",
                result |-> AllianceScrape(d, scraper.name, scraper.institution_type)] :
                  d \in AllianceDocs}

\* The outcomes of the scrape of each scraper of the list, by position.
RunAllOutcomes ==
    [k \in 1..Len(scrapers_to_run) |-> ScrapeOutcomes(scrapers_to_run[k])]

\* A faulty variant of FailedLog: every entry of the run is marked Failed.
FailedLog_AllEntries(logs, j, msg) ==
    [k \in 1..Len(logs) |-> [logs[k] EXCEPT !.status = "Failed", !.errorMessage = msg]]

\* Lines 84-88 (and 60-63): the job ends Failed with the given message.
FailedLog(logs, j, msg) ==
    [logs EXCEPT ![j].status = "Failed", ![j].errorMessage = msg]

\* A faulty variant of SuccessLog: the entry written is the first one, not the job's.
SuccessLog_FirstEntry(logs, j, n) ==
    [logs EXCEPT ![1].status = "Success", ![1].recordsUpdated = n]

\* A faulty variant of SuccessLog: the number of records is not written.
SuccessLog_StatusOnly(logs, j, n) == [logs EXCEPT ![j].status = "Success"]

\* Lines 80-82
SuccessLog(logs, j, n) ==
    [logs EXCEPT ![j].status = "Success", ![j].recordsUpdated = n]

\* A faulty variant of RunAllAdvance: the log upsert is issued after the first job
\* that ends, inside the loop.
RunAllAdvance_UpsertInLoop ==
    /\ i' = i + 1
    /\ pc' = "logs"
    /\ upserts' = upserts + 1

\* The loop moves to the next scraper; after the last one the log upsert
\* of line 94 is issued.
RunAllAdvance ==
    /\ i' = i + 1
    /\ pc' = IF i = Len(scrapers_to_run) THEN "logs" ELSE "loop"
    /\ upserts' = IF i = Len(scrapers_to_run) THEN upserts + 1 ELSE upserts

\* The message of the failure of lines 59-68 for a scrape result, "" if none.
ScrapeFailure(result) ==
    CASE result.kind = "exc" -> result.msg
      [] result.kind = "coroutine" -> "'coroutine' object has no attribute 'empty'"
      [] result.kind = "none" -> "'NoneType' object has no attribute 'empty'"
      [] result.kind = "df" /\ result.rows = <<>> -> "No data extracted"
      [] OTHER -> "N/A"

\* A faulty variant of ScrapeFailed: the df.empty test of line 59 is missing.
ScrapeFailed_NoEmptyCheck(result) == result.kind # "df"

\* Lines 57-59: the scrape raised, or handed back something that is not a
\* DataFrame with rows.
ScrapeFailed(result) == result.kind # "df" \/ result.rows = <<>>

\* Lines 57-73: the scrape returns or raises; an empty or failed scrape ends
\* the job, otherwise the records are cleaned and the delete is issued.
RunAllScrapeReturn ==
    /\ prog = "run_all" /\ pc = "loop"
    /\ jpc[i] = "scraping"
    /\ \E o \in RunAllOutcomes[i] :
          /\ df' = [df EXCEPT ![i] = o.result]
          /\ IF ScrapeFailed(o.result)
             THEN /\ all_logs' = FailedLog(all_logs, i, ScrapeFailure(o.result))
                  /\ jpc' = [jpc EXCEPT ![i] = "failed"]
                  /\ hist' = [hist EXCEPT ![i].fetch = o.fetch]
                  /\ RunAllAdvance
                  /\ UNCHANGED records
             ELSE /\ records' = [records EXCEPT ![i] = clean_and_rename_df(o.result.rows)]
                  /\ jpc' = [jpc EXCEPT ![i] = "deleting"]
                  /\ hist' = [hist EXCEPT ![i].fetch = o.fetch, ![i].deletes = @ + 1]
                  /\ UNCHANGED <<all_logs, i, pc, upserts>>
    /\ UNCHANGED <<call, prog, env, rates, scraper_logs, successful_scrapes,
                   failed_scrapes, prior>>

\* Lines 71-78: the delete returns and the insert is issued, or the delete
\* raises and the except clause ends the job.
RunAllDeleteReturn ==
    /\ prog = "run_all" /\ pc = "loop"
    /\ jpc[i] = "deleting"
    /\ \/ /\ rates' = StoreDelete(rates, scrapers_to_run[i].name)
          /\ jpc' = [jpc EXCEPT ![i] = "inserting"]
          /\ hist' = [hist EXCEPT ![i].del = "ok", ![i].inserts = @ + 1]
          /\ UNCHANGED <<all_logs, i, pc, upserts>>
       \/ /\ all_logs' = FailedLog(all_logs, i, StoreError)
          /\ jpc' = [jpc EXCEPT ![i] = "failed"]
          /\ hist' = [hist EXCEPT ![i].del = "rejected"]
          /\ RunAllAdvance
          /\ UNCHANGED rates
    /\ UNCHANGED <<call, prog, env, df, records, scraper_logs, successful_scrapes,
                   failed_scrapes, prior>>

\* The rows a store that inserts fewer rows than it was given may keep.
PartialInserts(recs) == {SubSeq(recs, 1, k) : k \in 0..(Len(recs) - 1)}

\* A faulty variant of RunAllInsertReturn: a rejected insert is issued once
\* more before the job is given up.
RunAllInsertReturn_RetriesOnce ==
    /\ prog = "run_all" /\ pc = "loop"
    /\ jpc[i] = "inserting"
    /\ \/ /\ rates' = StoreInsert(rates, records[i])
          /\ all_logs' = SuccessLog(all_logs, i, Len(records[i]))
          /\ jpc' = [jpc EXCEPT ![i] = "succeeded"]
          /\ hist' = [hist EXCEPT ![i].ins = "ok"]
          /\ RunAllAdvance
       \/ /\ hist[i].inserts < 2
          /\ hist' = [hist EXCEPT ![i].ins = "rejected", ![i].inserts = @ + 1]
          /\ UNCHANGED <<rates, all_logs, jpc, i, pc, upserts>>
       \/ /\ hist[i].inserts = 2
          /\ all_logs' = FailedLog(all_logs, i, StoreError)
          /\ jpc' = [jpc EXCEPT ![i] = "failed"]
          /\ hist' = [hist EXCEPT ![i].ins = "rejected"]
          /\ RunAllAdvance
          /\ UNCHANGED rates
    /\ UNCHANGED <<call, prog, env, df, records, scraper_logs, successful_scrapes,
                   failed_scrapes, prior>>

\* Lines 76-88: the insert returns and the job ends Success, or it raises and
\* the job ends Failed.  The response is not read, so an insert that kept
\* fewer rows than it was sent is handled as a full one and no warning is
\* printed.
RunAllInsertReturn ==
    /\ prog = "run_all" /\ pc = "loop"
    /\ jpc[i] = "inserting"
    /\ \/ /\ rates' = StoreInsert(rates, records[i])
          /\ all_logs' = SuccessLog(all_logs, i, Len(records[i]))
          /\ jpc' = [jpc EXCEPT ![i] = "succeeded"]
          /\ hist' = [hist EXCEPT ![i].ins = "ok"]
       \/ /\ \E part \in PartialInserts(records[i]) :
                rates' = StoreInsert(rates, part)
          /\ all_logs' = SuccessLog(all_logs, i, Len(records[i]))
          /\ jpc' = [jpc EXCEPT ![i] = "succeeded"]
          /\ hist' = [hist EXCEPT ![i].ins = "partial"]
       \/ /\ all_logs' = FailedLog(all_logs, i, StoreError)
          /\ jpc' = [jpc EXCEPT ![i] = "failed"]
          /\ hist' = [hist EXCEPT ![i].ins = "rejected"]
          /\ UNCHANGED rates
    /\ RunAllAdvance
    /\ UNCHANGED <<call, prog, env, df, records, scraper_logs, successful_scrapes,
                   failed_scrapes, prior>>

\* upsert(all_logs, on_conflict="name"), accepted by the store
StoreUpsert(table, logs) ==
    {r \in table : \A k \in 1..Len(logs) : logs[k].name # r.name}
    \cup {logs[k] : k \in 1..Len(logs)}

\* A faulty variant of RunAllUpsertReturn: a rejected upsert is not caught.
RunAllUpsertReturn_RejectionPropagates ==
    /\ prog = "run_all" /\ pc = "logs"
    /\ \/ /\ scraper_logs' = StoreUpsert(scraper_logs, all_logs)
          /\ pc' = "done"
       \/ /\ UNCHANGED scraper_logs
          /\ pc' = "crashed"
    /\ UNCHANGED <<call, prog, env, i, jpc, df, records, rates, all_logs,
                   successful_scrapes, failed_scrapes, hist, prior, upserts>>

\* Lines 92-101: the log upsert returns or raises; either way the run ends.
RunAllUpsertReturn ==
    /\ prog = "run_all" /\ pc = "logs"
    /\ \/ scraper_logs' = StoreUpsert(scraper_logs, all_logs)
       \/ UNCHANGED scraper_logs
    /\ pc' = "done"
    /\ UNCHANGED <<call, prog, env, i, jpc, df, records, rates, all_logs,
                   successful_scrapes, failed_scrapes, hist, prior, upserts>>

(***************************************************************************)
(* fd_scraper_v2.py: main and update_supabase_for_institution              *)
(***************************************************************************)
\* A faulty variant of MainInit: only the first scraper is started.
MainInit_StartsFirstOnly ==
    /\ prog = "main" /\ pc = "start"
    /\ IF ~env.url \/ ~env.key
       THEN /\ pc' = "aborted"
            /\ UNCHANGED <<jpc, hist>>
       ELSE /\ pc' = "gather"
            /\ jpc' = [jpc EXCEPT ![1] = "scraping"]
            /\ hist' = [hist EXCEPT ![1].fetches = @ + 1]
    /\ UNCHANGED <<call, prog, env, i, df, records, rates, scraper_logs, all_logs,
                   successful_scrapes, failed_scrapes, prior, upserts>>

\* Lines 1299-1364: the configuration check; then every scraper is started
\* (to_thread for the sync table, the coroutine itself for the async one)
\* and gathered.
MainInit ==
    /\ prog = "main" /\ pc = "start"
    /\ IF ~env.url \/ ~env.key
       THEN /\ pc' = "aborted"
            /\ UNCHANGED <<jpc, hist>>
       ELSE /\ pc' = "gather"
            /\ jpc' = [j \in Jobs |-> "scraping"]
            /\ hist' = [j \in Jobs |-> [hist[j] EXCEPT !.fetches = @ + 1]]
    /\ UNCHANGED <<call, prog, env, i, df, records, rates, scraper_logs, all_logs,
                   successful_scrapes, failed_scrapes, prior, upserts>>

\* What the scrape function of job j returns: both functions catch a failed
\* fetch themselves and return None.
MainScrapeOutcomes(j) ==
    IF j <= Len(sync_scrapers)
    THEN {[fetch |-> "raised", result |-> ReturnNone]}
         \cup {[fetch |-> "doc", result |-> scrape_cargills_bank_fd_rates(d)] :
                  d \in CargillsDocs}
    ELSE {[fetch |-> IF d.browser THEN "doc" ELSE "raised",
           result |-> scrape_commercial_bank_fd_rates(d)] : d \in CommercialDocs}

\* The outcomes of each task of the gather, by position.
MainOutcomes == [j \in Jobs |-> MainScrapeOutcomes(j)]

\* One task of the gather of line 1364 completes.
MainScrapeReturn(j) ==
    /\ prog = "main" /\ pc = "gather"
    /\ jpc[j] = "scraping"
    /\ \E o \in MainOutcomes[j] :
          /\ df' = [df EXCEPT ![j] = o.result]
          /\ hist' = [hist EXCEPT ![j].fetch = o.fetch]
    /\ jpc' = [jpc EXCEPT ![j] = "scraped"]
    /\ UNCHANGED <<call, prog, env, pc, i, records, rates, scraper_logs, all_logs,
                   successful_scrapes, failed_scrapes, prior, upserts>>

\* Line 1379: isinstance(result, pd.DataFrame) and not result.empty
GoodScrape(result) == result.kind = "df" /\ result.rows # <<>>

\* A faulty variant of UploadSkipped: only the name is checked.
UploadSkipped_NameOnly(result, institution_name) == institution_name = ""

\* Lines 19-21 of update_supabase_for_institution
UploadSkipped(result, institution_name) == institution_name = "" \/ result.rows = <<>>

\* Lines 1371-1391 and 13-36: the gather has returned; the loop counts the
\* results and builds one upload per good scrape; the uploads are gathered,
\* and each runs up to its first await, the delete.
MainProcess ==
    /\ prog = "main" /\ pc = "gather"
    /\ \A j \in Jobs : jpc[j] = "scraped"
    /\ LET upload_tasks == {j \in Jobs : GoodScrape(df[j])}
           started == {j \in upload_tasks : ~UploadSkipped(df[j], all_scraper_names[j])}
       IN  /\ successful_scrapes' = Cardinality(upload_tasks)
           /\ failed_scrapes' = Cardinality(Jobs \ upload_tasks)
           /\ records' = [j \in Jobs |->
                             IF j \in started THEN clean_and_rename_df(df[j].rows)
                             ELSE records[j]]
           /\ jpc' = [j \in Jobs |->
                         IF j \in started THEN "deleting"
                         ELSE IF j \in upload_tasks THEN "skipped" ELSE "failed"]
           /\ hist' = [j \in Jobs |->
                          IF j \in started THEN [hist[j] EXCEPT !.deletes = @ + 1]
                          ELSE hist[j]]
           /\ pc' = IF upload_tasks = {} THEN "done" ELSE "uploading"
    /\ UNCHANGED <<call, prog, env, i, df, rates, scraper_logs, all_logs, prior, upserts>>

\* A faulty variant of UploadDeleteReturn: the insert is issued also after a
\* delete that raised.
UploadDeleteReturn_InsertsAnyway(j) ==
    /\ prog = "main" /\ pc = "uploading"
    /\ jpc[j] = "deleting"
    /\ \/ /\ rates' = StoreDelete(rates, all_scraper_names[j])
          /\ jpc' = [jpc EXCEPT ![j] = "inserting"]
          /\ hist' = [hist EXCEPT ![j].del = "ok", ![j].inserts = @ + 1]
       \/ /\ jpc' = [jpc EXCEPT ![j] = "inserting"]
          /\ hist' = [hist EXCEPT ![j].del = "rejected", ![j].inserts = @ + 1]
          /\ UNCHANGED rates
    /\ UNCHANGED <<call, prog, env, pc, i, df, records, scraper_logs, all_logs,
                   successful_scrapes, failed_scrapes, prior, upserts>>

\* Lines 31-48: the delete returns and the insert is issued, or the delete
\* raises and lines 55-56 print the failure.
UploadDeleteReturn(j) ==
    /\ prog = "main" /\ pc = "uploading"
    /\ jpc[j] = "deleting"
    /\ \/ /\ rates' = StoreDelete(rates, all_scraper_names[j])
          /\ jpc' = [jpc EXCEPT ![j] = "inserting"]
          /\ hist' = [hist EXCEPT ![j].del = "ok", ![j].inserts = @ + 1]
       \/ /\ jpc' = [jpc EXCEPT ![j] = "failed"]
          /\ hist' = [hist EXCEPT ![j].del = "rejected"]
          /\ UNCHANGED rates
    /\ UNCHANGED <<call, prog, env, pc, i, df, records, scraper_logs, all_logs,
                   successful_scrapes, failed_scrapes, prior, upserts>>

\* Lines 44-56: the insert returns with as many rows as were sent, or with
\* fewer (the warning of line 53), or raises (lines 55-56).
UploadInsertReturn(j) ==
    /\ prog = "main" /\ pc = "uploading"
    /\ jpc[j] = "inserting"
    /\ \/ /\ rates' = StoreInsert(rates, records[j])
          /\ jpc' = [jpc EXCEPT ![j] = "succeeded"]
          /\ hist' = [hist EXCEPT ![j].ins = "ok"]
       \/ /\ \E part \in PartialInserts(records[j]) :
                rates' = StoreInsert(rates, part)
          /\ jpc' = [jpc EXCEPT ![j] = "succeeded"]
          /\ hist' = [hist EXCEPT ![j].ins = "partial", ![j].warning = TRUE]
       \/ /\ jpc' = [jpc EXCEPT ![j] = "failed"]
          /\ hist' = [hist EXCEPT ![j].ins = "rejected"]
          /\ UNCHANGED rates
    /\ UNCHANGED <<call, prog, env, pc, i, df, records, scraper_logs, all_logs,
                   successful_scrapes, failed_scrapes, prior, upserts>>

JobTerminal(j) == jpc[j] \in {"succeeded", "failed", "skipped"}

\* Lines 1391-1396: the gather of the uploads has returned; the summary.
MainFinish ==
    /\ prog = "main" /\ pc = "uploading"
    /\ \A j \in Jobs : JobTerminal(j)
    /\ pc' = "done"
    /\ UNCHANGED <<call, prog, env, i, jpc, df, records, rates, scraper_logs, all_logs,
                   successful_scrapes, failed_scrapes, hist, prior, upserts>>

Next ==
    \/ RunAllInit
    \/ RunAllStartScrape
    \/ RunAllScrapeReturn
    \/ RunAllDeleteReturn
    \/ RunAllInsertReturn
    \/ RunAllUpsertReturn
    \/ MainInit
    \/ \E j \in Jobs : MainScrapeReturn(j)
    \/ MainProcess
    \/ \E j \in Jobs : UploadDeleteReturn(j)
    \/ \E j \in Jobs : UploadInsertReturn(j)
    \/ MainFinish

Spec == Init /\ [][Next]_vars

(***************************************************************************)
(* fd_scraper_v2.py: scrape_alliance_finance_fd_rates, after the fetch     *)
(***************************************************************************)
\* The nested parse_term_to_months: re.search(r'(\d+)\s*Month', text,
\* re.IGNORECASE); a text in years has no match.
parse_term_legacy(term_text) ==
    LET match == MonthsMatch(term_text)
    IN  IF match # <<>> THEN Val(ToInt(match)) ELSE None

LegacyAllianceRow(cells) ==
    IF Len(cells) # 5 THEN NoRows
    ELSE LET term_months == parse_term_legacy(cells[1])
         IN  IF ~Truthy(term_months) THEN NoRows
             ELSE LET monthly  == clean_rate_legacy(cells[2])
                      mAer     == IF Truthy(monthly) THEN clean_rate_legacy(cells[3]) ELSE None
                      maturity == clean_rate_legacy(cells[4])
                      tAer     == IF Truthy(maturity) THEN clean_rate_legacy(cells[5]) ELSE None
                  IN  [exc  |-> ColumnRaises(monthly, mAer) \/ ColumnRaises(maturity, tAer),
                       rows |-> ColumnRecords(monthly, mAer, "Alliance Finance", "Standard",
                                              "Finance Company", term_months, "Monthly")
                                \o ColumnRecords(maturity, tAer, "Alliance Finance",
                                                 "Standard", "Finance Company",
                                                 term_months, "At Maturity")]

\* Every exception is caught and None returned; None too for a page without
\* the table or without a record.
scrape_alliance_finance_fd_rates(doc) ==
    IF ~doc.table THEN ReturnNone
    ELSE LET per == [k \in 1..Len(doc.rows) |-> LegacyAllianceRow(doc.rows[k])]
             all_rates_data == Flatten([k \in 1..Len(per) |-> per[k].rows])
         IN  IF \E k \in 1..Len(per) : per[k].exc THEN ReturnNone
             ELSE IF all_rates_data = <<>> THEN ReturnNone
             ELSE DataFrame(all_rates_data)

(***************************************************************************)
(* The extraction helpers called on their own: the texts and documents a   *)
(* caller can hand them                                                    *)
(***************************************************************************)
\* Most tokens of one cell text.
MaxTokens == 3

\* The texts made of at most n tokens.
Texts(tokens, n) == {Flatten(s) : s \in SeqsUpTo(tokens, n)}

\* At most two digits follow a dot directly (the floats are in hundredths).
TwoPlaces(t) ==
    \A k \in 1..Len(t) :
        (t[k] = "." /\ k + 3 <= Len(t)) =>
            \E m \in (k + 1)..(k + 3) : t[m] \notin Digits

RateTokens ==
    { <<"1", "4", ".", "5">>, <<"0">>, <<".">>, <<"%">>, <<"-">>, EnDash, MojibakeDash,
      <<" ">>, <<" ", "p", ".", "a", ".">>, <<"N", ".", "A", ".">> }

RateTexts == {t \in Texts(RateTokens, MaxTokens) : TwoPlaces(t)}

TermTokens ==
    { <<"1">>, <<"6">>, <<" ">>, <<"Y", "e", "a", "r">>, <<"y", "e", "a", "r", "s">>,
      <<"M", "o", "n", "t", "h", "s">>, <<"M", "O", "N", "T", "H">>, <<"t", "h">> }

TermTexts == Texts(TermTokens, MaxTokens)

HelperInit ==
    /\ prog = "helpers"
    /\ env = [url |-> TRUE, key |-> TRUE]
    /\ pc = "start"
    /\ i = 0
    /\ jpc = [j \in Jobs |-> "pending"]
    /\ df = [j \in Jobs |-> ReturnNone]
    /\ records = [j \in Jobs |-> <<>>]
    /\ rates = <<>>
    /\ scraper_logs = {}
    /\ all_logs = <<>>
    /\ successful_scrapes = 0
    /\ failed_scrapes = 0
    /\ hist = [j \in Jobs |-> NoHist]
    /\ prior = <<>>
    /\ upserts = 0
    /\ call = NoCall

\* A behaviour of the helpers makes one call.
CanCall == prog = "helpers" /\ call = NoCall

\* The call fn(arg) returns result; nothing else changes.
Called(fn, arg, result) ==
    /\ call' = [fn |-> fn, arg |-> arg, result |-> result]
    /\ UNCHANGED <<prog, env, pc, i, jpc, df, records, rates, scraper_logs, all_logs,
                   successful_scrapes, failed_scrapes, hist, prior, upserts>>

CallCleanRate ==
    /\ CanCall
    /\ \E t \in RateTexts : Called("clean_rate", t, clean_rate(t))

CallCleanRateLegacy ==
    /\ CanCall
    /\ \E t \in RateTexts : Called("clean_rate_legacy", t, clean_rate_legacy(t))

CallParseTerm ==
    /\ CanCall
    /\ \E t \in TermTexts : Called("parse_term_to_months", t, parse_term_to_months(t))

CallAllianceScrape ==
    /\ CanCall
    /\ \E d \in AllianceDocs :
          Called("AllianceScraper.scrape", d,
                 AllianceScrape(d, "Alliance Finance", "Finance Company"))

CallLegacyAlliance ==
    /\ CanCall
    /\ \E d \in AllianceDocs :
          Called("scrape_alliance_finance_fd_rates", d,
                 scrape_alliance_finance_fd_rates(d))

CallCargills ==
    /\ CanCall
    /\ \E d \in CargillsDocs :
          Called("scrape_cargills_bank_fd_rates", d, scrape_cargills_bank_fd_rates(d))

CallCommercial ==
    /\ CanCall
    /\ \E d \in CommercialDocs :
          Called("scrape_commercial_bank_fd_rates", d, scrape_commercial_bank_fd_rates(d))

\* commercial_bank.py, lines 19-29, and fd_scraper_v2.py, lines 153-166: the
\* awaited calls of the browser automation, in order; any of them may raise
\* or time out.
BrowserSteps ==
    << "chromium.launch", "new_page", "goto", "wait_for", "click",
       "wait_for_selector", "content", "browser.close" >>

\* A faulty variant of BrowserFetch: the automation is not inside an
\* `async with async_playwright()` block, so nothing runs on the way out of a
\* call that raised.
BrowserFetch_NoContextManager(fail_at) ==
    LET launched == fail_at = 0 \/ fail_at > 1
        close_returned == fail_at = 0
    IN  [ launched |-> launched,
          close_returned |-> close_returned,
          playwright_stopped |-> fail_at = 0,
          browser_open |-> launched /\ ~close_returned,
          result |-> IF fail_at = 0 THEN "html" ELSE "raised" ]

\* The browser automation in which step fail_at raises (0: none does).  The
\* browser is there once chromium.launch has returned; browser.close() is the
\* last statement of the block and is reached only when nothing raised;
\* leaving the `async with async_playwright()` block, by its end or by an
\* exception, stops Playwright and with it any browser it still runs; only
\* then does the except clause see the exception.
BrowserFetch(fail_at) ==
    LET launched == fail_at = 0 \/ fail_at > 1
        close_returned == fail_at = 0
        playwright_stopped == TRUE
    IN  [ launched |-> launched,
          close_returned |-> close_returned,
          playwright_stopped |-> playwright_stopped,
          browser_open |-> launched /\ ~close_returned /\ ~playwright_stopped,
          result |-> IF fail_at = 0 THEN "html" ELSE "raised" ]

CallBrowserFetch ==
    /\ CanCall
    /\ \E fail_at \in 0..Len(BrowserSteps) :
          Called("browser_fetch", fail_at, BrowserFetch(fail_at))

\* fd_scraper_v2.py, lines 13-56: one call of update_supabase_for_institution
\* on the store `table`; del_ok tells whether the store accepts the delete
\* and ins whether it keeps all the records, all but the last, or raises.
\* The result counts the requests issued and gives the store afterwards.
update_supabase_for_institution(table, result, institution_name, del_ok, ins) ==
    IF UploadSkipped(result, institution_name)
    THEN [deletes |-> 0, inserts |-> 0, rates |-> table]
    ELSE LET recs == clean_and_rename_df(result.rows)
             deleted == StoreDelete(table, institution_name)
         IN  IF ~del_ok THEN [deletes |-> 1, inserts |-> 0, rates |-> table]
             ELSE IF ins = "rejected"
                  THEN [deletes |-> 1, inserts |-> 1, rates |-> deleted]
             ELSE IF ins = "partial"
                  THEN [deletes |-> 1, inserts |-> 1,
                        rates |-> StoreInsert(deleted, SubSeq(recs, 1, Len(recs) - 1))]
             ELSE [deletes |-> 1, inserts |-> 1, rates |-> StoreInsert(deleted, recs)]

\* The DataFrames handed to a direct call: an empty one and those the
\* Cargills Bank scrape returns.
UploadFrames ==
    {DataFrame(<<>>)}
    \cup {r \in {scrape_cargills_bank_fd_rates(d) : d \in CargillsDocs} : r.kind = "df"}

CallUpdateSupabase ==
    /\ CanCall
    /\ \E name \in {"", "Cargills Bank"}, result \in UploadFrames,
          table \in {<<>>, <<OldRow("Cargills Bank")>>},
          del_ok \in BOOLEAN, ins \in {"ok", "partial", "rejected"} :
          Called("update_supabase_for_institution",
                 [name |-> name, df |-> result, table |-> table,
                  del_ok |-> del_ok, ins |-> ins],
                 update_supabase_for_institution(table, result, name, del_ok, ins))

HelperNext ==
    \/ CallCleanRate
    \/ CallCleanRateLegacy
    \/ CallParseTerm
    \/ CallAllianceScrape
    \/ CallLegacyAlliance
    \/ CallCargills
    \/ CallCommercial
    \/ CallBrowserFetch
    \/ CallUpdateSupabase

HelperSpec == HelperInit /\ [][HelperNext]_vars

(***************************************************************************)
(* Vocabulary of the properties                                            *)
(***************************************************************************)
Done == pc = "done"

\* The run of job j failed for a reason of its own: its fetch raised (or,
\* for an async scrape under to_thread, never happened), it extracted no
\* record, or the store rejected its delete or its insert.
OwnFailure(j) ==
    \/ hist[j].fetch \in {"raised", "coroutine"}
    \/ hist[j].fetch = "doc" /\ ~GoodScrape(df[j])
    \/ hist[j].del = "rejected"
    \/ hist[j].ins = "rejected"

\* Job j published: its delete and then its insert were accepted.
Published(j) == hist[j].del = "ok" /\ hist[j].ins \in {"ok", "partial"}

EntriesOf(logs) == {logs[k] : k \in 1..Len(logs)}

StoreAcceptedAll(j) == hist[j].del = "ok" /\ hist[j].ins = "ok"

RateKey(r) == <<r.bankName, r.termMonths, r.payoutSchedule, r.fdType>>

\* C3: after a run the store holds at most one record for each
\* (institutionName, termMonths, payoutSchedule, productVariant).
C3_OneRecordPerKey ==
    Done => \A a, b \in 1..Len(rates) : RateKey(rates[a]) = RateKey(rates[b]) => a = b

\* C4: once the publisher has returned or failed for an institution, its
\* rows are exactly the rows from before the run or exactly the new records.
C4_ReplaceIsAtomic ==
    \A j \in Jobs :
        (JobTerminal(j) /\ hist[j].deletes > 0) =>
            \/ RowsOf(rates, JobName(j)) = RowsOf(prior, JobName(j))
            \/ RowsOf(rates, JobName(j)) = records[j]

\* Job k is at a point where its own next step can be taken: in
\* run_scraper_orchestrator the loop is at k; in main its scrape is being
\* gathered or its upload is waiting for the store.
JobCanStep(k) ==
    IF prog = "run_all"
    THEN pc = "loop" /\ i = k
    ELSE \/ pc = "gather" /\ jpc[k] = "scraping"
         \/ pc = "uploading" /\ jpc[k] \in {"deleting", "inserting"}

C6_Frame ==
    /\ \A n \in {BankNames[k] : k \in 1..Len(BankNames)} :
          RowsOf(rates', n) # RowsOf(rates, n) =>
              \E j \in Jobs :
                  /\ JobName(j) = n
                  /\ jpc[j] \in {"deleting", "inserting"}
                  /\ jpc'[j] # jpc[j]
                  /\ \A k \in Jobs \ {j} : jpc'[k] = jpc[k]
    /\ \A j \in Jobs : \A k \in 1..Len(records'[j]) :
          records'[j][k].bankName = JobName(j)

C6_JobsTouchOnlyOwnRows == [][C6_Frame]_vars

C6_Witness ==
    \E j, k \in Jobs :
        /\ j # k /\ Published(j) /\ Len(records[j]) > 0
        /\ RowsOf(prior, JobName(k)) # <<>>
        /\ RowsOf(rates, JobName(k)) = RowsOf(prior, JobName(k))

\* C7: a job whose fetch raised has a Failed log entry with recordsUpdated 0
\* and a non-empty errorMessage, and issued no delete and no insert.
C7_FetchFailureLogged ==
    \A j \in Jobs :
        (prog = "run_all" /\ hist[j].fetch = "raised") =>
            /\ all_logs[j].status = "Failed"
            /\ all_logs[j].recordsUpdated = 0
            /\ all_logs[j].errorMessage # ""
            /\ hist[j].deletes = 0 /\ hist[j].inserts = 0

\* The fetch of job j succeeded and the extraction found no record.
ZeroRecords(j) ==
    /\ hist[j].fetch = "doc"
    /\ IF prog = "run_all" THEN df[j].kind = "df" /\ df[j].rows = <<>>
       ELSE df[j].kind = "none"

\* C8: a job whose fetch succeeded and whose extraction found no record
\* never reaches the publisher (no delete, no insert, its published rows
\* are the ones from before the run); run_scraper_orchestrator logs it
\* Failed with the message 'No data extracted', main counts it as failed.
C8_ZeroRecordsFail ==
    \A j \in Jobs :
        ZeroRecords(j) =>
            /\ hist[j].deletes = 0 /\ hist[j].inserts = 0
            /\ RowsOf(rates, JobName(j)) = RowsOf(prior, JobName(j))
            /\ prog = "run_all" =>
                  /\ jpc[j] = "failed"
                  /\ all_logs[j].status = "Failed"
                  /\ all_logs[j].errorMessage = "No data extracted"
                  /\ all_logs[j].recordsUpdated = 0
            /\ prog = "main" =>
                  /\ jpc[j] \in {"scraped", "failed"}
                  /\ pc # "gather" => (jpc[j] = "failed" /\ failed_scrapes >= 1)

C8_Witness ==
    \E j \in Jobs :
        /\ ZeroRecords(j) /\ Done /\ prog = "run_all"
        /\ RowsOf(rates, JobName(j)) # <<>>

C10_OneLogUpsertAfterAllJobs ==
    prog = "run_all" =>
        /\ upserts = (IF pc \in {"logs", "done"} THEN 1 ELSE 0)
        /\ pc \in {"logs", "done"} =>
              /\ Len(all_logs) = Len(scrapers_to_run)
              /\ \A j \in Jobs :
                    /\ JobTerminal(j)
                    /\ all_logs[j].name = scrapers_to_run[j].name
                    /\ all_logs[j].status \in {"Success", "Failed"}
                    /\ all_logs[j].status = "Success" <=> jpc[j] = "succeeded"
        /\ scraper_logs # {} => (Done /\ scraper_logs = EntriesOf(all_logs))

C10_Witness ==
    /\ prog = "run_all" /\ Done /\ upserts = 1
    /\ scraper_logs = EntriesOf(all_logs)
    /\ \E j \in Jobs : all_logs[j].status = "Success"

\* C11: when the store URL or the service key is missing from the
\* environment the run aborts before any job starts: the run is at its start
\* or aborted, no scraper was constructed (no log entry exists), every job is
\* pending with no fetch, delete or insert issued, the published rows are the
\* ones from before the run and no log upsert was issued.
C11_MissingConfigAborts ==
    (~env.url \/ ~env.key) =>
        /\ pc \in {"start", "aborted"}
        /\ all_logs = <<>>
        /\ \A j \in Jobs : jpc[j] = "pending" /\ hist[j] = NoHist /\ records[j] = <<>>
        /\ rates = prior
        /\ upserts = 0 /\ scraper_logs = {}
        /\ successful_scrapes = 0 /\ failed_scrapes = 0

C11_Witness ==
    /\ pc = "aborted" /\ prog = "run_all"
    /\ env.url /\ ~env.key
    /\ rates # <<>>

\* Every fetch and every store call eventually returns or raises, and the
\* orchestrator takes its own steps: no enabled step is put off forever.
FairSpec == Spec /\ WF_vars(Next)

C13_ParseRate ==
    call.fn \in {"clean_rate", "clean_rate_legacy"} =>
        /\ call.arg = <<"1", "4", ".", "5", "%", " ", "p", ".", "a", ".">>
              => call.result = Val(1450)
        /\ call.arg \in {<<"-">>, EnDash, <<>>} => call.result = None
        /\ call.result.tag = "val" => call.result.v > 0

\* C14: parse_term_to_months returns 12 for "1 Year" and 6 for "6 Months";
\* it returns absent exactly for the texts without a digit or without a unit
\* word ("year" or "month" in any case); otherwise it returns the first
\* integer of the text, times 12 exactly when the text holds a year word
\* (which wins over a month word in the same text); it never raises.
C14_ParseTerm ==
    call.fn = "parse_term_to_months" =>
        LET t        == call.arg
            hasYear  == Contains(Lower(t), <<"y", "e", "a", "r">>)
            hasMonth == Contains(Lower(t), <<"m", "o", "n", "t", "h">>)
            hasDigit == \E k \in 1..Len(t) : t[k] \in Digits
            n        == ToInt(FirstRun(t, Digits))
        IN  /\ t = <<"1", " ", "Y", "e", "a", "r">> => call.result = Val(12)
            /\ t = <<"6", " ", "M", "o", "n", "t", "h", "s">> => call.result = Val(6)
            /\ call.result.tag # "exc"
            /\ call.result = None <=> (~hasDigit \/ (~hasYear /\ ~hasMonth))
            /\ call.result.tag = "val" =>
                  call.result.v = (IF hasYear THEN 12 * n ELSE n)

C14_Witness ==
    /\ call.fn = "parse_term_to_months"
    /\ call.arg = <<"6", " ", "y", "e", "a", "r", "s">>
    /\ call.result = Val(72)

\* The document of the scenario: the rate table with its two five-cell rows.
TwoRowDoc ==
    [table |-> TRUE,
     rows  |-> << <<T12Months, R135, R139, Dash, Dash>>,
                  <<T6Months, Dash, Dash, R120, Dash>> >>]

\* C15: from the two rows ("12 Months", "13.5%", "13.9%", "-", "-") and
\* ("6 Months", "-", "-", "12.0%", "-") the Alliance extraction (the scraper
\* class and the legacy function alike) returns exactly two records, in row
\* order: 12 months, Monthly, rate 13.5, aer 13.9; and 6 months, At
\* Maturity, rate 12.0, aer absent.
C15_TwoRowScenario ==
    (/\ call.fn \in {"AllianceScraper.scrape", "scrape_alliance_finance_fd_rates"}
     /\ call.arg = TwoRowDoc) =>
        call.result =
            DataFrame(<< RawRecord("Alliance Finance", "Standard", "Finance Company",
                                   Val(12), "Monthly", 1350, Val(1390)),
                         RawRecord("Alliance Finance", "Standard", "Finance Company",
                                   Val(6), "At Maturity", 1200, None) >>)

C15_Witness ==
    /\ call.fn = "AllianceScraper.scrape"
    /\ call.arg = TwoRowDoc
    /\ call.result.kind = "df" /\ Len(call.result.rows) = 2

\* C16: the extraction of a fetched document never raises (no scrape
\* function ends with an exception), and in AllianceScraper.scrape a row
\* with the wrong cell count, an unparsable term or a rate text without a
\* valid number is skipped while the records of every other row are returned.
C16_ExtractionNeverRaises ==
    /\ call.fn \in {"AllianceScraper.scrape", "scrape_alliance_finance_fd_rates",
                    "scrape_cargills_bank_fd_rates", "scrape_commercial_bank_fd_rates"}
          => call.result.kind # "exc"
    /\ call.fn = "AllianceScraper.scrape" =>
          \A k \in 1..Len(call.arg.rows) :
              LET row == AllianceRow(call.arg.rows[k], "Alliance Finance", "Finance Company")
              IN  ~row.exc =>
                      \A m \in 1..Len(row.rows) :
                          \E n \in 1..Len(call.result.rows) :
                              call.result.rows[n] = row.rows[m]

\* C17: every record a job hands to the insert, and every row of the
\* published table, has a termMonths that is a positive integer and an
\* interest rate greater than 0.
C17_PublishedRecordsValid ==
    LET Valid(r) == r.termMonths.tag = "val" /\ r.termMonths.v > 0 /\ r.interestRate > 0
    IN  /\ \A j \in Jobs : \A k \in 1..Len(records[j]) : Valid(records[j][k])
        /\ \A k \in 1..Len(rates) : Valid(rates[k])

\* The place of a job's position in the order Pending, Fetching, Extracting
\* (scraped, waiting for the gather in main), Publishing (the delete, then
\* the insert), terminal.
Rank(p) ==
    CASE p = "pending" -> 0
      [] p = "scraping" -> 1
      [] p = "scraped" -> 2
      [] p = "deleting" -> 3
      [] p = "inserting" -> 4
      [] OTHER -> 5

\* C18: in every step each job stays where it is or moves forward; a
\* terminal job changes no more (its position, what it issued and, in
\* run_scraper_orchestrator, its log entry stay as they are); and a job has
\* issued at most one fetch, one delete and one insert, the delete only
\* after its fetch returned a document and the insert only after its delete
\* was accepted.
C18_Step ==
    \A j \in Jobs :
        /\ Rank(jpc'[j]) >= Rank(jpc[j])
        /\ JobTerminal(j) =>
              /\ jpc'[j] = jpc[j]
              /\ hist'[j] = hist[j]
              /\ prog = "run_all" => all_logs'[j] = all_logs[j]
        /\ hist'[j].fetches <= 1 /\ hist'[j].deletes <= 1 /\ hist'[j].inserts <= 1
        /\ hist'[j].deletes > 0 => hist'[j].fetch = "doc"
        /\ hist'[j].inserts > 0 => hist'[j].del = "ok"

C18_JobsMoveForward == [][C18_Step]_vars

C18_Witness ==
    \E j \in Jobs :
        /\ prog = "run_all" /\ Done
        /\ jpc[j] = "failed" /\ hist[j].ins = "rejected"
        /\ hist[j].fetches = 1 /\ hist[j].deletes = 1 /\ hist[j].inserts = 1

\* C19: in run_scraper_orchestrator every job of the list, its scrape
\* method synchronous or declared async, for which nothing outside went
\* wrong (the fetch did not raise, the extraction did not come back without
\* records, the store rejected neither the delete nor the insert) issued its
\* delete and its insert and ended with log status Success.
C19_GoodJobsPublish ==
    \A j \in Jobs :
        (/\ prog = "run_all" /\ JobTerminal(j)
         /\ hist[j].fetch # "raised"
         /\ ~(hist[j].fetch = "doc" /\ ScrapeFailed(df[j]))
         /\ hist[j].del # "rejected" /\ hist[j].ins # "rejected") =>
            /\ hist[j].deletes = 1 /\ hist[j].inserts = 1
            /\ all_logs[j].status = "Success"

\* C20: a job whose delete or insert the store rejected is in the failed
\* terminal state and is reported as failed, never as a success: its log
\* entry is Failed in run_scraper_orchestrator, and in main's summary the
\* failed count covers it and the success count does not.
C20_RejectedPublishIsFailed ==
    \A j \in Jobs :
        (hist[j].del = "rejected" \/ hist[j].ins = "rejected") =>
            /\ jpc[j] = "failed"
            /\ prog = "run_all" =>
                  all_logs[j].status = "Failed" /\ all_logs[j].recordsUpdated = 0
            /\ (prog = "main" /\ Done) =>
                  /\ failed_scrapes = Cardinality({k \in Jobs : jpc[k] = "failed"})
                  /\ successful_scrapes = Cardinality({k \in Jobs : jpc[k] = "succeeded"})

\* C21: in run_scraper_orchestrator the log entries are created, all
\* Pending, in the step that passes configuration, before any job has run;
\* afterwards an entry changes only in a step of its own job (the loop is at
\* it and the job is under way), in which its status goes from Pending to
\* Success or Failed, the job becomes terminal and no other entry changes
\* (so no entry changes twice); and the log table is written at most once,
\* by the one upsert, which holds every entry exactly once.
C21_Step ==
    prog = "run_all" =>
        /\ (all_logs = <<>> /\ all_logs' # <<>>) =>
              /\ Len(all_logs') = Len(scrapers_to_run)
              /\ \A k \in Jobs :
                    /\ all_logs'[k] = get_log_data(scrapers_to_run[k])
                    /\ all_logs'[k].status = "Pending"
                    /\ jpc'[k] = "pending" /\ hist'[k] = NoHist
        /\ all_logs # <<>> =>
              /\ Len(all_logs') = Len(all_logs)
              /\ \A k \in Jobs :
                    all_logs'[k] # all_logs[k] =>
                        /\ k = i /\ pc = "loop"
                        /\ jpc[k] \in {"scraping", "deleting", "inserting"}
                        /\ all_logs[k].status = "Pending"
                        /\ all_logs'[k].status \in {"Success", "Failed"}
                        /\ JobTerminal(k)'
                        /\ \A m \in Jobs \ {k} : all_logs'[m] = all_logs[m]
        /\ scraper_logs' # scraper_logs =>
              /\ scraper_logs = {} /\ pc = "logs" /\ upserts = 1
              /\ scraper_logs' = EntriesOf(all_logs)
              /\ Cardinality(scraper_logs') = Len(all_logs)
        /\ upserts' <= 1

C21_LogEntryLifecycle == [][C21_Step]_vars

C21_Witness ==
    /\ prog = "run_all" /\ Done
    /\ all_logs[1].status = "Failed"
    /\ all_logs[2].status = "Failed" /\ all_logs[2].errorMessage = "No data extracted"
    /\ scraper_logs = EntriesOf(all_logs)

\* fd_scraper_v2.py, lines 1323-1353: the keys of main's two tables, in full.
sync_scraper_keys ==
    << "Cargills Bank", "DFCC Bank", "National Savings Bank (NSB)",
       "Nations Trust Bank", "People's Bank", "Alliance Finance",
       "Commercial Credit", "Dialog Finance", "HNB Finance",
       "Janashakthi Finance", "LOLC Finance", "MBSL Bank",
       "Mercantile Investments", "People's Leasing & Finance", "PMF Finance",
       "Singer Finance", "Siyapatha Finance", "SMB Finance",
       "Vallibel Finance" >>

async_scraper_keys ==
    << "Commercial Bank", "Hatton National Bank (HNB)", "Pan Asia Bank",
       "Sampath Bank", "CDB Finance", "Nation Lanka Finance",
       "Senkadagala Finance" >>

Distinct(s) == \A m, k \in 1..Len(s) : m # k => s[m] # s[k]

IsSubSeq(s, full) == \E at \in 1..Len(full) : \A k \in 1..Len(s) :
                         at + k - 1 <= Len(full) /\ full[at + k - 1] = s[k]

\* Job j has a delete or an insert under way at the store.
InFlight(j) == jpc[j] \in {"deleting", "inserting"}

\* C22: no institution name occurs twice among the jobs of a run (in
\* scrapers_to_run, and in main's sync and async tables taken together, whose
\* modelled entries are entries of the full tables), and in every state any
\* two jobs that both have a delete or an insert under way are for different
\* institution names.
C22_NoTwoUploadsForOneName ==
    /\ Distinct(sync_scraper_keys \o async_scraper_keys)
    /\ Distinct([k \in 1..Len(scrapers_to_run) |-> scrapers_to_run[k].name])
    /\ IsSubSeq(sync_scrapers, sync_scraper_keys)
    /\ IsSubSeq(async_scrapers, async_scraper_keys)
    /\ prog \in {"run_all", "main"} =>
          \A j, k \in Jobs :
              (j # k /\ InFlight(j) /\ InFlight(k)) => JobName(j) # JobName(k)

\* Two uploads of main are under way at once, one at its delete and one at
\* its insert.
C22_Witness ==
    /\ prog = "main"
    /\ jpc[1] = "inserting" /\ jpc[2] = "deleting"
    /\ JobName(1) # JobName(2)

\* s is a proper prefix of t.
ProperPrefix(s, t) == Len(s) < Len(t) /\ s = SubSeq(t, 1, Len(s))

\* C23: a job whose insert kept fewer rows than it was sent has a warning
\* reported for it, ends succeeded and not failed, issued its insert once,
\* and the rows that were kept are the rows of its institution in the store.
C23_ShortInsertWarns ==
    \A j \in Jobs :
        (prog \in {"run_all", "main"} /\ hist[j].ins = "partial") =>
            /\ hist[j].warning
            /\ jpc[j] = "succeeded"
            /\ hist[j].inserts = 1
            /\ ProperPrefix(RowsOf(rates, JobName(j)), records[j])


\* C24: when main has finished a run in which the jobs ran, the summary's
\* succeeded count plus its failed count is the number of jobs, and the
\* succeeded count is the number of jobs that ended succeeded, with the
\* scrape and the publish both accepted.
C24_SummaryCounts ==
    (prog = "main" /\ Done /\ \A j \in Jobs : JobTerminal(j)) =>
        /\ successful_scrapes + failed_scrapes = Cardinality(Jobs)
        /\ successful_scrapes = Cardinality({j \in Jobs : jpc[j] = "succeeded"})

C26_RunAllOneByOne ==
    (prog = "run_all" /\ all_logs # <<>>) =>
        \A j \in Jobs :
            /\ jpc[j] # "pending" =>
                  \A k \in 1..(j - 1) :
                      JobTerminal(k) /\ all_logs[k].status \in {"Success", "Failed"}
            /\ JobTerminal(j) =>
                  all_logs[j].status =
                      IF jpc[j] = "succeeded" THEN "Success" ELSE "Failed"
            /\ ~JobTerminal(j) => all_logs[j].status = "Pending"

\* The second job is being scraped after the first has ended Failed.
C26_Witness ==
    /\ prog = "run_all" /\ pc = "loop" /\ i = 2
    /\ jpc[1] = "failed" /\ all_logs[1].status = "Failed"
    /\ jpc[2] = "scraping" /\ all_logs[2].status = "Pending"

\* C27: every row of the batch log upsert has exactly the fields name,
\* institutionType, status, recordsUpdated, errorMessage and lastRun.
C27_LogRowsHaveLastRun ==
    (prog = "run_all" /\ upserts = 1) =>
        \A k \in 1..Len(all_logs) :
            DOMAIN all_logs[k] =
                {"name", "institutionType", "status", "recordsUpdated",
                 "errorMessage", "lastRun"}

\* C28: in every state of run_scraper_orchestrator a log entry with status
\* Success has recordsUpdated equal to the number of records that were passed
\* to its job's insert, which is at least 1, and its errorMessage is still
\* 'N/A'; a log entry with status Failed or Pending has recordsUpdated 0.
C28_LogCountsMatchStatus ==
    prog = "run_all" =>
        \A k \in 1..Len(all_logs) :
            /\ all_logs[k].status = "Success" =>
                  /\ hist[k].inserts = 1
                  /\ all_logs[k].recordsUpdated = Len(records[k])
                  /\ all_logs[k].recordsUpdated >= 1
                  /\ all_logs[k].errorMessage = "N/A"
            /\ all_logs[k].status \in {"Failed", "Pending"} =>
                  all_logs[k].recordsUpdated = 0

\* One entry is Success with two records while the other is Failed.
C28_Witness ==
    /\ prog = "run_all" /\ Len(all_logs) = 2
    /\ all_logs[1].status = "Failed" /\ all_logs[1].recordsUpdated = 0
    /\ all_logs[2].status = "Success" /\ all_logs[2].recordsUpdated = 2
    /\ Len(records[2]) = 2

\* C29: for each institution an insert has been issued only after its delete
\* was issued and accepted; a job whose delete was rejected has issued no
\* insert, is failed, and the rows of its institution in the store are the
\* rows published before the run, unchanged.
C29_DeleteBeforeInsert ==
    prog \in {"run_all", "main"} =>
        \A j \in Jobs :
            /\ hist[j].inserts > 0 => hist[j].deletes = 1 /\ hist[j].del = "ok"
            /\ hist[j].ins # "none" => hist[j].inserts = 1
            /\ hist[j].del = "rejected" =>
                  /\ hist[j].deletes = 1
                  /\ hist[j].inserts = 0 /\ hist[j].ins = "none"
                  /\ jpc[j] = "failed"
                  /\ RowsOf(rates, JobName(j)) = RowsOf(prior, JobName(j))

\* A rejected delete with earlier rows of that institution still published
\* at the end of the run.
C29_Witness ==
    /\ Done
    /\ \E j \in Jobs :
          /\ hist[j].del = "rejected"
          /\ RowsOf(prior, JobName(j)) # <<>>
          /\ RowsOf(rates, JobName(j)) = RowsOf(prior, JobName(j))

\* C30: a call of update_supabase_for_institution with an empty institution
\* name or an empty record set issues no delete and no insert and leaves the
\* store as it was; any other call issues the delete.
C30_InvalidUploadIssuesNothing ==
    call.fn = "update_supabase_for_institution" =>
        IF call.arg.name = "" \/ call.arg.df.rows = <<>>
        THEN /\ call.result.deletes = 0
             /\ call.result.inserts = 0
             /\ call.result.rates = call.arg.table
        ELSE call.result.deletes = 1

\* A call with records but an empty name, and one with a name but no
\* records, on a store that holds rows.
C30_Witness ==
    /\ call.fn = "update_supabase_for_institution"
    /\ call.arg.table # <<>>
    /\ \/ call.arg.name = "" /\ call.arg.df.rows # <<>>
       \/ call.arg.name # "" /\ call.arg.df.rows = <<>>
    /\ call.result.rates = call.arg.table
=============================================================================
